---------------------------- MODULE Spec2Model ----------------------------
(***************************************************************************)
(* A model of the caregiver stress-risk calculator (src/app.py) and of the *)
(* two keep-alive scripts (src/.github/scripts/wake_up_app.py and          *)
(* src/.github/workflows/wake_up_app.py).                                  *)
(*                                                                         *)
(* Numbers.  Probabilities and thresholds are fixed-point numbers in units *)
(* of 1/Unit (per-mille): 0.5 is 500.  A slider value is a multiple of     *)
(* 0.01, i.e. of 10 units.                                                 *)
(*                                                                         *)
(* Optional values (Python's None) are sequences of length 0 or 1.         *)
(* A Python dict is the sequence of its <<key, value>> pairs in insertion  *)
(* order.  A call that may raise returns [raised, exc, value].             *)
(***************************************************************************)
EXTENDS Integers, Sequences, FiniteSets, TLC

VARIABLES
  \* ---- src/app.py: the environment the script reads
  preprocessorFile,   \* the file at PREPROCESSOR_PATH
  modelFile,          \* the file at MODEL_PATH
  thresholdFile,      \* the file at THRESHOLD_JSON_PATH
  THRESHOLD_KEY,      \* os.getenv("THRESHOLD_KEY", "XGBoost")
  \* ---- src/app.py: one run of the script
  pc,                 \* position of the script run
  runs,               \* number of script runs started so far
  preprocessor,       \* None or the loaded preprocessor
  model,              \* None or the loaded classifier
  BEST_THRESHOLD,     \* None or the loaded threshold
  thr,                \* None or the slider's value
  show_shap,          \* the checkbox
  user_inputs,        \* the dict the form (or a caller) assembles
  submitted,          \* the form's submit button
  df_single_orig,     \* None or the single-row frame
  X_single_model,     \* None or the preprocessed row
  prob,               \* None or the probability
  pred,               \* None or the numeric label
  label,              \* None or the narrative label
  shap_vec,           \* None or the normalised contribution vector
  raised,             \* None or the exception the handler caught
  screenOut,          \* the elements rendered so far in this run
  \* ---- the keep-alive scripts
  script,             \* "scripts" (health-check script) or "workflows" (resume-prompt script)
  STREAMLIT_URL,      \* the environment variable; "" when unset or empty
  kpc,                \* position of the keep-alive process
  attempt,            \* the loop variable of the retry loop
  driver,             \* the local variable: None or the session it refers to
  sessions,           \* the browser sessions launched and not quit
  launched,           \* number of browser sessions launched so far
  ret,                \* None or the value the attempt is returning
  success,            \* whether an attempt has reported success
  exit_code,          \* None or the process exit code
  attemptLog,         \* what each finished attempt reported
  outcomes,           \* how each step of the current attempt ended ("": not run)
  sleeps,             \* the backoff waits made, in seconds
  clicks              \* the elements clicked

envVars == <<preprocessorFile, modelFile, thresholdFile, THRESHOLD_KEY>>

loadVars == <<preprocessor, model, BEST_THRESHOLD>>

widgetVars == <<thr, show_shap, user_inputs, submitted>>

resultVars == <<df_single_orig, X_single_model, prob, pred, label, shap_vec>>

appVars == <<envVars, pc, runs, loadVars, widgetVars, resultVars, raised, screenOut>>

kaVars == <<script, STREAMLIT_URL, kpc, attempt, driver, sessions, launched, ret,
            success, exit_code, attemptLog, outcomes, sleeps, clicks>>

vars == <<appVars, kaVars>>

-----------------------------------------------------------------------------
(* Bounds of the model *)

\* script runs (Streamlit reruns the script on every interaction)
MaxRuns == 2

-----------------------------------------------------------------------------
(* Generic helpers *)

None == <<>>
Some(x) == <<x>>
Range(s) == {s[i] : i \in 1..Len(s)}
Ok(v) == [raised |-> FALSE, exc |-> <<>>, value |-> v]
Raise(e) == [raised |-> TRUE, exc |-> e, value |-> <<>>]

\* the fixed-point unit: 1.0
Unit == 1000

-----------------------------------------------------------------------------
(* Feature schema *)

feature_ranges ==
  << [key |-> "daydurG",       type |-> "numerical",   min |-> 0,  max |-> 24,  default |-> 12],
     [key |-> "age_G",         type |-> "numerical",   min |-> 0,  max |-> 120, default |-> 60],
     [key |-> "ageR",          type |-> "numerical",   min |-> 60, max |-> 120, default |-> 60],
     [key |-> "caredurG",      type |-> "numerical",   min |-> 0,  max |-> 120, default |-> 60],
     [key |-> "healthR",       type |-> "categorical", min |-> 1,  max |-> 5,   default |-> 1],
     [key |-> "healthG",       type |-> "categorical", min |-> 1,  max |-> 5,   default |-> 1],
     [key |-> "adlR",          type |-> "categorical", min |-> 0,  max |-> 3,   default |-> 0],
     [key |-> "adlG",          type |-> "categorical", min |-> 0,  max |-> 3,   default |-> 0],
     [key |-> "hukou_cityR",   type |-> "categorical", min |-> 0,  max |-> 1,   default |-> 0],
     [key |-> "is_citycentre", type |-> "categorical", min |-> 0,  max |-> 1,   default |-> 0] >>

FINAL_FEATURES ==
  << "daydurG", "healthR", "age_G", "adlR", "caredurG", "healthG", "ageR", "adlG",
     "hukou_cityR", "is_citycentre" >>


NUM_COLS == SelectSeq(feature_ranges, LAMBDA cfg : cfg.type = "numerical")
CAT_COLS == SelectSeq(feature_ranges, LAMBDA cfg : cfg.type = "categorical")

-----------------------------------------------------------------------------
(* Dicts and single-row frames *)

Keys(d) == [i \in 1..Len(d) |-> d[i][1]]
HasKey(d, k) == \E i \in 1..Len(d) : d[i][1] = k
Get(d, k) == d[CHOOSE i \in 1..Len(d) : d[i][1] = k][2]

\* pd.DataFrame([input_dict]): one row, the columns in the dict's insertion order
DataFrame(input_dict) ==
  [columns |-> Keys(input_dict),
   rows    |-> << [i \in 1..Len(input_dict) |-> input_dict[i][2]] >>]

ColumnIndex(df, c) == CHOOSE i \in 1..Len(df.columns) : df.columns[i] = c

\* df[feature_order].copy(): the listed columns, in the listed order
SelectColumns(df, feature_order) ==
  [columns |-> feature_order,
   rows    |-> [r \in 1..Len(df.rows) |->
                  [j \in 1..Len(feature_order) |->
                     df.rows[r][ColumnIndex(df, feature_order[j])]]]]

\* a plausible slip: the frame is returned as built, in the dict's own order
ensure_feature_dataframe_unordered(input_dict, feature_order) ==
  LET df == DataFrame(input_dict)
      missing == SelectSeq(feature_order, LAMBDA c : c \notin Range(df.columns))
  IN  IF missing # <<>>
        THEN Raise(<<"ValueError", "Missing required features">> \o missing)
        ELSE Ok(df)

\* a plausible slip: only the first absent feature is named
ensure_feature_dataframe_first_missing(input_dict, feature_order) ==
  LET df == DataFrame(input_dict)
      missing == SelectSeq(feature_order, LAMBDA c : c \notin Range(df.columns))
  IN  IF missing # <<>>
        THEN Raise(<<"ValueError", "Missing required features", Head(missing)>>)
        ELSE Ok(SelectColumns(df, feature_order))

ensure_feature_dataframe(input_dict, feature_order) ==
  LET df == DataFrame(input_dict)
      missing == SelectSeq(feature_order, LAMBDA c : c \notin Range(df.columns))
  IN  IF missing # <<>>
        THEN Raise(<<"ValueError", "Missing required features">> \o missing)
        ELSE Ok(SelectColumns(df, feature_order))

-----------------------------------------------------------------------------
(* The threshold file and load_threshold *)

\* Python's float(x) on a value json.load produced.  A JSON value is [t, v]:
\* a number ("num", v units), a string that reads as a number ("numstr", v units),
\* true or false ("bool", v in 0..1), or null, another string, a list, an object
\* (v unused), which float() rejects.
Float(x) ==
  CASE x.t = "num"    -> Ok(x.v)
    [] x.t = "numstr" -> Ok(x.v)
    [] x.t = "bool"   -> Ok(x.v * Unit)
    [] OTHER          -> Raise(<<"TypeError", x.t>>)

\* the default threshold, 0.5
DEFAULT_THRESHOLD == 500

\* a plausible slip: the lookup falls outside the try block's conversion guard,
\* so a value float() rejects escapes as an exception
load_threshold_unguarded(file, key, default) ==
  IF file.state = "missing" THEN Ok(default)
  ELSE IF file.state # "json" \/ file.kind # "object" THEN Ok(default)
  ELSE IF ~HasKey(file.items, key) THEN Ok(default)
  ELSE Float(Get(file.items, key))

\* file.state: "missing" (os.path.exists is false), "unreadable" (open raises),
\* "malformed" (json.load raises) or "json"; then file.kind is the document's top
\* level type and file.items the dict of an object.
load_threshold(file, key, default) ==
  IF file.state = "missing" THEN Ok(default)
  ELSE IF file.state # "json" THEN Ok(default)            \* open / json.load raised
  ELSE IF file.kind # "object" THEN Ok(default)           \* d.get raised
  ELSE IF ~HasKey(file.items, key) THEN Ok(default)       \* float(default)
  ELSE LET f == Float(Get(file.items, key))
       IN  IF f.raised THEN Ok(default) ELSE Ok(f.value)

-----------------------------------------------------------------------------
(* The artifacts.  Both are opaque fitted objects; the model stands for them *)
(* with a positional transform and a linear scorer, so that a result depends *)
(* on the order of the columns it is given.                                  *)

\* preprocessor.transform(df): the row's values, by column position
Transform(pre, df) ==
  IF pre.raises THEN Raise(<<"ValueError", "transform">>)
  ELSE Ok(df.rows[1])

RECURSIVE Dot(_, _, _)
Dot(coef, X, n) == IF n = 0 THEN 0 ELSE coef[n] * X[n] + Dot(coef, X, n - 1)

Clip(x) == IF x < 0 THEN 0 ELSE IF x > Unit THEN Unit ELSE x

LinearScore(m, X) == m.bias + Dot(m.coef, X, Len(X))

\* model.predict_proba(X): one row, the columns of class 0 and class 1
ModelPredictProba(m, X) ==
  LET p == Clip(LinearScore(m, X)) IN << <<Unit - p, p>> >>

\* model.decision_function(X): a margin, here an integer
ModelDecisionFunction(m, X) == (LinearScore(m, X) - m.offset) \div m.margin

\* e, in units
EulerUnits == 2718

\* np.exp(n) in units, for an integer n
RECURSIVE Exp(_)
Exp(n) ==
  IF n = 0 THEN Unit
  ELSE IF n > 0 THEN (Exp(n - 1) * EulerUnits) \div Unit
  ELSE (Unit * Unit) \div Exp(-n)

\* 1.0 / (1.0 + np.exp(-z))
Logistic(z) == (Unit * Unit) \div (Unit + Exp(-z))

\* a plausible slip: the decision function is consulted first
predict_proba_margin_first(m, X) ==
  IF m.hasDF THEN Ok(Logistic(ModelDecisionFunction(m, X)))
  ELSE IF m.hasPP THEN Ok(ModelPredictProba(m, X)[1][2])
  ELSE Raise(<<"RuntimeError", "Model does not support probability outputs">>)

predict_proba(m, X) ==
  IF m.hasPP THEN Ok(ModelPredictProba(m, X)[1][2])
  ELSE IF m.hasDF THEN Ok(Logistic(ModelDecisionFunction(m, X)))
  ELSE Raise(<<"RuntimeError", "Model does not support probability outputs">>)

-----------------------------------------------------------------------------
(* risk_narrative *)

HIGH == "High stress risk"
LOW == "Low stress risk"

\* f"{prob*100:.1f}%", in tenths of a percent
Pct1(p) == (p * 1000) \div Unit
\* f"{prob*100:.2f}%", in hundredths of a percent
Pct2(p) == (p * 10000) \div Unit
\* f"{thr:.2f}", in hundredths
Fmt2(t) == (t * 100 + Unit \div 2) \div Unit

\* a plausible slip: a strict comparison, the boundary falls to Low
risk_narrative_strict(p, t) ==
  IF p > t
    THEN <<HIGH, <<">=", Pct1(p), Fmt2(t)>> >>
    ELSE <<LOW,  <<"<",  Pct1(p), Fmt2(t)>> >>

risk_narrative(p, t) ==
  IF p >= t
    THEN <<HIGH, <<">=", Pct1(p), Fmt2(t)>> >>
    ELSE <<LOW,  <<"<",  Pct1(p), Fmt2(t)>> >>

\* int(prob >= thr)
PredictedLabel(p, t) == IF p >= t THEN 1 ELSE 0

-----------------------------------------------------------------------------
(* The state of a script run that has not started *)

RunFresh ==
  /\ preprocessor = None
  /\ model = None
  /\ BEST_THRESHOLD = None
  /\ thr = None
  /\ show_shap = FALSE
  /\ submitted = FALSE
  /\ df_single_orig = None
  /\ X_single_model = None
  /\ prob = None
  /\ pred = None
  /\ label = None
  /\ shap_vec = None
  /\ raised = None
  /\ screenOut = <<>>

NoFile == [state |-> "missing", kind |-> "", items |-> <<>>, object |-> <<>>]

\* the steps of an attempt, in either script
Steps == {"health", "create", "get", "ready", "selectors", "interact", "title",
          "find", "click", "gone", "quit"}

NoOutcomes == [st \in Steps |-> ""]

\* the keep-alive process is not part of the system
KaIdle ==
  /\ script = ""
  /\ STREAMLIT_URL = ""
  /\ kpc = "off"
  /\ attempt = 0
  /\ driver = None
  /\ sessions = {}
  /\ launched = 0
  /\ ret = None
  /\ success = FALSE
  /\ exit_code = None
  /\ attemptLog = <<>>
  /\ outcomes = NoOutcomes
  /\ sleeps = <<>>
  /\ clicks = <<>>

\* the application is not part of the system
AppIdle ==
  /\ preprocessorFile = NoFile
  /\ modelFile = NoFile
  /\ thresholdFile = NoFile
  /\ THRESHOLD_KEY = "XGBoost"
  /\ runs = 0
  /\ pc = "off"
  /\ RunFresh
  /\ user_inputs = <<>>

-----------------------------------------------------------------------------
(* ensure_feature_dataframe on its own: any mapping a caller may pass *)

\* keys a mapping may carry beyond the schema
ExtraKeys == <<"record_id", "stress">>

Reverse(s) == [i \in 1..Len(s) |-> s[Len(s) + 1 - i]]
Rotate(s, n) == [i \in 1..Len(s) |-> s[((i + n - 1) % Len(s)) + 1]]
Interleave(s) ==
  SelectSeq(s, LAMBDA k : \E i \in 1..Len(s) : s[i] = k /\ i % 2 = 1)
    \o SelectSeq(s, LAMBDA k : \E i \in 1..Len(s) : s[i] = k /\ i % 2 = 0)

\* insertion orders of the keys
KeyOrders ==
  { FINAL_FEATURES \o ExtraKeys,
    ExtraKeys \o Keys([i \in 1..Len(feature_ranges) |-> <<feature_ranges[i].key, 0>>]),
    Reverse(FINAL_FEATURES \o ExtraKeys),
    Rotate(FINAL_FEATURES \o ExtraKeys, 5),
    Interleave(FINAL_FEATURES \o ExtraKeys) }

\* the value a mapping holds under a key: distinct per key
ValueOf(k) ==
  LET all == FINAL_FEATURES \o ExtraKeys
  IN  7 * (CHOOSE i \in 1..Len(all) : all[i] = k)

\* every mapping: an insertion order of any subset of the keys
InputDicts ==
  { [i \in 1..Len(ks) |-> <<ks[i], ValueOf(ks[i])>>] :
      ks \in { SelectSeq(o, LAMBDA k : k \in present) :
                 o \in KeyOrders, present \in SUBSET Range(FINAL_FEATURES \o ExtraKeys) } }

InitRecord ==
  /\ preprocessorFile = NoFile
  /\ modelFile = NoFile
  /\ thresholdFile = NoFile
  /\ THRESHOLD_KEY = "XGBoost"
  /\ runs = 0
  /\ pc = "call"
  /\ RunFresh
  /\ user_inputs \in InputDicts
  /\ KaIdle

\* df_single_orig = ensure_feature_dataframe(user_inputs, FINAL_FEATURES)
CallEnsure ==
  /\ pc = "call"
  /\ LET r == ensure_feature_dataframe(user_inputs, FINAL_FEATURES)
     IN  /\ df_single_orig' = IF r.raised THEN None ELSE Some(r.value)
         /\ raised' = IF r.raised THEN Some(r.exc) ELSE None
  /\ pc' = "returned"
  /\ UNCHANGED <<kaVars, envVars, runs, loadVars, widgetVars, X_single_model, prob, pred,
                 label, shap_vec, screenOut>>

NextRecord == CallEnsure

SpecRecord == InitRecord /\ [][NextRecord]_vars

AbsentFeatures == {k \in Range(FINAL_FEATURES) : ~HasKey(user_inputs, k)}

\* C2: a mapping that holds all ten required keys, in any insertion order and
\* with any extra keys, yields one row whose columns are exactly FINAL_FEATURES,
\* in that order, each cell holding the value the mapping has under that name.
C2_SchemaOrder ==
  (pc = "returned" /\ AbsentFeatures = {}) =>
     /\ raised = None
     /\ df_single_orig # None
     /\ df_single_orig[1].columns = FINAL_FEATURES
     /\ Len(df_single_orig[1].rows) = 1
     /\ Len(df_single_orig[1].rows[1]) = Len(FINAL_FEATURES)
     /\ \A j \in 1..Len(FINAL_FEATURES) :
          df_single_orig[1].rows[1][j] = Get(user_inputs, FINAL_FEATURES[j])

\* a complete mapping, with an extra key, whose insertion order is not the schema's
C2_Witness ==
  /\ pc = "returned"
  /\ AbsentFeatures = {}
  /\ Len(user_inputs) > Len(FINAL_FEATURES)
  /\ Keys(user_inputs)[1] # FINAL_FEATURES[1]
  /\ df_single_orig # None

\* C3: a mapping that lacks a required key fails with the missing-features error,
\* which names exactly the absent required keys, once each, and no row is returned.
C3_MissingNamed ==
  (pc = "returned" /\ AbsentFeatures # {}) =>
     /\ df_single_orig = None
     /\ raised # None
     /\ raised[1][1] = "ValueError"
     /\ raised[1][2] = "Missing required features"
     /\ Range(SubSeq(raised[1], 3, Len(raised[1]))) = AbsentFeatures
     /\ Len(raised[1]) - 2 = Cardinality(AbsentFeatures)

\* several required keys absent, an extra key present
C3_Witness ==
  /\ pc = "returned"
  /\ Cardinality(AbsentFeatures) >= 2
  /\ HasKey(user_inputs, ExtraKeys[1])
  /\ raised # None
  /\ df_single_orig = None

-----------------------------------------------------------------------------
(* load_threshold on its own: any file, either configured key *)

ModelNames == {"XGBoost", "LogReg"}

\* values json.load may produce under a key
JsonValues ==
  { [t |-> "num", v |-> n] : n \in {0, 370, 500, 700, 1000, 1500} }
    \cup { [t |-> "numstr", v |-> 700] }
    \cup { [t |-> "bool", v |-> b] : b \in {0, 1} }
    \cup { [t |-> x, v |-> 0] : x \in {"null", "str", "list", "obj"} }

JsonFile(kind, items) == [state |-> "json", kind |-> kind, items |-> items, object |-> <<>>]

\* objects with any of the two model names as keys, in either order
JsonObjects ==
  { JsonFile("object", <<>>) }
    \cup { JsonFile("object", << <<k, x>> >>) : k \in ModelNames, x \in JsonValues }
    \cup { JsonFile("object", << <<ks[1], x1>>, <<ks[2], x2>> >>) :
             ks \in {p \in ModelNames \X ModelNames : p[1] # p[2]},
             x1 \in JsonValues, x2 \in JsonValues }

ThresholdFiles ==
  { [state |-> st, kind |-> "", items |-> <<>>, object |-> <<>>] :
      st \in {"missing", "unreadable", "malformed"} }
    \cup { JsonFile(k, <<>>) : k \in {"array", "number", "string", "null", "bool"} }
    \cup JsonObjects

InitThreshold ==
  /\ preprocessorFile = NoFile
  /\ modelFile = NoFile
  /\ thresholdFile \in ThresholdFiles
  /\ THRESHOLD_KEY \in ModelNames
  /\ runs = 0
  /\ pc = "call"
  /\ RunFresh
  /\ user_inputs = <<>>
  /\ KaIdle

\* BEST_THRESHOLD = load_threshold(THRESHOLD_JSON_PATH, THRESHOLD_KEY, 0.5)
CallLoadThreshold ==
  /\ pc = "call"
  /\ LET r == load_threshold(thresholdFile, THRESHOLD_KEY, DEFAULT_THRESHOLD)
     IN  /\ BEST_THRESHOLD' = IF r.raised THEN None ELSE Some(r.value)
         /\ raised' = IF r.raised THEN Some(r.exc) ELSE None
  /\ pc' = "returned"
  /\ UNCHANGED <<kaVars, envVars, runs, preprocessor, model, widgetVars, resultVars,
                 screenOut>>

NextThreshold == CallLoadThreshold

SpecThreshold == InitThreshold /\ [][NextThreshold]_vars

\* the file exists and holds well-formed JSON containing the configured key
KeyStored ==
  /\ thresholdFile.state = "json"
  /\ thresholdFile.kind = "object"
  /\ HasKey(thresholdFile.items, THRESHOLD_KEY)

StoredValue == Get(thresholdFile.items, THRESHOLD_KEY)

\* the stored value is one float() accepts
Convertible(x) == x.t \in {"num", "numstr", "bool"}

\* the number a convertible stored value denotes
Denoted(x) == IF x.t = "bool" THEN x.v * Unit ELSE x.v

\* C4 as amended: load_threshold returns the float of the value stored under the
\* configured key when the file holds a JSON object containing that key and the
\* value converts to float; in every other case (file missing or unreadable,
\* malformed JSON, a document that is no object, key missing, a value float()
\* rejects) it returns the default 0.5; it never raises.
C4_ThresholdOrDefault ==
  pc = "returned" =>
     /\ raised = None
     /\ BEST_THRESHOLD # None
     /\ BEST_THRESHOLD[1] =
          IF KeyStored /\ Convertible(StoredValue)
            THEN Denoted(StoredValue)
            ELSE DEFAULT_THRESHOLD

\* the key is stored with a number other than the default, beside another key
C4_Witness ==
  /\ pc = "returned"
  /\ KeyStored
  /\ Len(thresholdFile.items) = 2
  /\ StoredValue.t = "num"
  /\ BEST_THRESHOLD = Some(370)

\* C4 as claimed: whenever the file holds well-formed JSON containing the key,
\* the value stored under the key is what load_threshold returns.
C4_AsClaimed ==
  (pc = "returned" /\ KeyStored) =>
     /\ Convertible(StoredValue)
     /\ BEST_THRESHOLD = Some(Denoted(StoredValue))

-----------------------------------------------------------------------------
(* The application script.  Streamlit runs the script top to bottom on every *)
(* interaction; st.stop() and an uncaught exception both end the run.        *)

\* a rendered element
El(kind, what, data) == [kind |-> kind, what |-> what, data |-> data]

Shows(scr, kind, what) == \E i \in 1..Len(scr) : scr[i].kind = kind /\ scr[i].what = what

ShowsData(scr, kind, what, data) ==
  \E i \in 1..Len(scr) : scr[i].kind = kind /\ scr[i].what = what /\ scr[i].data = data

\* a plausible slip: the existence check is skipped
Exists_unchecked(file) == TRUE

\* os.path.exists(path)
Exists(file) == file.state # "missing"

\* the classifiers an artifact file may hold: which outputs the object exposes,
\* whether it is a calibrated wrapper, and its fitted numbers
Classifiers ==
  { [hasPP |-> pp, hasDF |-> df, calibrated |-> cal, bias |-> 240,
     coef |-> <<10, -20, 1, 40, 1, -20, 1, 40, 50, 50>>, offset |-> 440, margin |-> 60] :
      pp \in BOOLEAN, df \in BOOLEAN, cal \in BOOLEAN }

Preprocessors == { [raises |-> r] : r \in BOOLEAN }

ArtifactFile(state, kind, obj) ==
  [state |-> state, kind |-> kind, items |-> <<>>, object |-> obj]

PreprocessorFiles ==
  { ArtifactFile("missing", "", <<>>), ArtifactFile("corrupt", "", <<>>) }
    \cup { ArtifactFile("ok", "pickle", <<o>>) : o \in Preprocessors }

\* a classifier file is written by joblib, or is a pickle joblib.load rejects
ModelFiles ==
  { ArtifactFile("missing", "", <<>>), ArtifactFile("corrupt", "", <<>>) }
    \cup { ArtifactFile("ok", "joblib", <<o>>) : o \in Classifiers }
    \cup { ArtifactFile("ok", "pickle", <<o>>) : o \in {c \in Classifiers : c.hasPP /\ c.calibrated} }

AppThresholdFiles ==
  { NoFile,
    JsonFile("object", << <<"XGBoost", [t |-> "num", v |-> 370]>> >>),
    JsonFile("object", << <<"XGBoost", [t |-> "num", v |-> 1500]>> >>) }

Init ==
  /\ preprocessorFile \in PreprocessorFiles
  /\ modelFile \in ModelFiles
  /\ thresholdFile \in AppThresholdFiles
  /\ THRESHOLD_KEY = "XGBoost"
  /\ runs = 1
  /\ pc = "start"
  /\ RunFresh
  /\ user_inputs = <<>>
  /\ KaIdle

\* an uncaught exception: Streamlit shows it and the run ends
Crash(e) ==
  /\ screenOut' = Append(screenOut, El("exception", e, <<>>))
  /\ pc' = "crashed"

\* st.error(...); st.stop()
ErrorAndStop(msg) ==
  /\ screenOut' = Append(screenOut, El("error", msg, <<>>))
  /\ pc' = "stopped"

\* lines 84-88
LoadPreprocessor ==
  /\ pc = "start"
  /\ IF ~Exists(preprocessorFile)
       THEN ErrorAndStop("Preprocessor not found") /\ UNCHANGED preprocessor
       ELSE IF preprocessorFile.state # "ok"
         THEN Crash("pickle.load") /\ UNCHANGED preprocessor
         ELSE /\ preprocessor' = Some(preprocessorFile.object[1])
              /\ pc' = "load_model"
              /\ UNCHANGED screenOut
  /\ UNCHANGED <<kaVars, envVars, runs, model, BEST_THRESHOLD, widgetVars, resultVars, raised>>

\* lines 90-97: joblib.load, and pickle.load when that raises
LoadModel ==
  /\ pc = "load_model"
  /\ IF ~Exists(modelFile)
       THEN ErrorAndStop("Model not found") /\ UNCHANGED model
       ELSE IF modelFile.state # "ok"
         THEN Crash("pickle.load") /\ UNCHANGED model
         ELSE /\ model' = Some(modelFile.object[1])
              /\ pc' = "load_threshold"
              /\ UNCHANGED screenOut
  /\ UNCHANGED <<kaVars, envVars, runs, preprocessor, BEST_THRESHOLD, widgetVars, resultVars,
                 raised>>

\* line 110
LoadThreshold ==
  /\ pc = "load_threshold"
  /\ LET r == load_threshold(thresholdFile, THRESHOLD_KEY, DEFAULT_THRESHOLD)
     IN  IF r.raised
           THEN Crash("load_threshold") /\ UNCHANGED BEST_THRESHOLD
           ELSE /\ BEST_THRESHOLD' = Some(r.value)
                /\ pc' = "sidebar"
                /\ UNCHANGED screenOut
  /\ UNCHANGED <<kaVars, envVars, runs, preprocessor, model, widgetVars, resultVars, raised>>

\* values the user may leave the slider at, besides its initial value
SliderChoices == {0, 500, Unit}

\* lines 154-156: the slider (0.0 to 1.0, initially BEST_THRESHOLD, which it
\* rejects when outside its range) and the checkbox
Sidebar ==
  /\ pc = "sidebar"
  /\ IF BEST_THRESHOLD[1] < 0 \/ BEST_THRESHOLD[1] > Unit
       THEN Crash("slider value out of range") /\ UNCHANGED <<thr, show_shap>>
       ELSE /\ \E t \in SliderChoices \cup {BEST_THRESHOLD[1]} : thr' = Some(t)
            /\ show_shap' \in BOOLEAN
            /\ pc' = "form"
            /\ UNCHANGED screenOut
  /\ UNCHANGED <<kaVars, envVars, runs, loadVars, user_inputs, submitted, resultVars, raised>>

\* what the widgets let the user enter: every field at its initial value, or one
\* field moved to the least or the greatest value its widget allows
FormValues ==
  LET initial == [i \in 1..Len(feature_ranges) |-> feature_ranges[i].default]
  IN  {initial}
        \cup { [initial EXCEPT ![i] = feature_ranges[i].min] : i \in 1..Len(feature_ranges) }
        \cup { [initial EXCEPT ![i] = feature_ranges[i].max] : i \in 1..Len(feature_ranges) }

\* a plausible slip: only the numerical column of the form is collected
FormDict_numerical_only(values) ==
  LET at(k) == CHOOSE i \in 1..Len(feature_ranges) : feature_ranges[i].key = k
  IN  [j \in 1..Len(NUM_COLS) |-> <<NUM_COLS[j].key, values[at(NUM_COLS[j].key)]>>]

\* lines 161-199: user_inputs gets the numerical fields, then the categorical
\* ones, each in feature_ranges order
FormDict(values) ==
  LET at(k) == CHOOSE i \in 1..Len(feature_ranges) : feature_ranges[i].key = k
      cols == NUM_COLS \o CAT_COLS
  IN  [j \in 1..Len(cols) |-> <<cols[j].key, values[at(cols[j].key)]>>]

\* lines 161-201
Form ==
  /\ pc = "form"
  /\ \E values \in FormValues : user_inputs' = FormDict(values)
  /\ submitted' \in BOOLEAN
  /\ screenOut' = Append(screenOut, El("form", "single_form", <<>>))
  /\ pc' = IF submitted' THEN "score" ELSE "caption"
  /\ UNCHANGED <<kaVars, envVars, runs, loadVars, thr, show_shap, resultVars, raised>>

\* a plausible slip: the handler replaces what was rendered by the error
ExceptHandler_replaces(scr, e) == << El("error", "Prediction failed", e) >>

\* lines 288-289: except Exception as e: st.error(f"Prediction failed: {e}")
ExceptHandler(scr, e) == Append(scr, El("error", "Prediction failed", e))

Caught(e) ==
  /\ raised' = Some(e)
  /\ screenOut' = ExceptHandler(screenOut, e)
  /\ pc' = "caption"

\* lines 206-212, and 288-289 when a step raises
Score ==
  /\ pc = "score"
  /\ LET r1 == ensure_feature_dataframe(user_inputs, FINAL_FEATURES)
         r2 == Transform(preprocessor[1], r1.value)
         r3 == predict_proba(model[1], r2.value)
         nar == risk_narrative(r3.value, thr[1])
     IN  IF r1.raised
           THEN Caught(r1.exc) /\ UNCHANGED resultVars
           ELSE IF r2.raised
             THEN /\ Caught(r2.exc)
                  /\ df_single_orig' = Some(r1.value)
                  /\ UNCHANGED <<X_single_model, prob, pred, label, shap_vec>>
             ELSE IF r3.raised
               THEN /\ Caught(r3.exc)
                    /\ df_single_orig' = Some(r1.value)
                    /\ X_single_model' = Some(r2.value)
                    /\ UNCHANGED <<prob, pred, label, shap_vec>>
               ELSE /\ df_single_orig' = Some(r1.value)
                    /\ X_single_model' = Some(r2.value)
                    /\ prob' = Some(r3.value)
                    /\ pred' = Some(PredictedLabel(r3.value, thr[1]))
                    /\ label' = Some(nar[1])
                    /\ pc' = "render"
                    /\ UNCHANGED <<shap_vec, raised, screenOut>>
  /\ UNCHANGED <<kaVars, envVars, runs, loadVars, widgetVars>>

\* lines 215-238: the three metrics, the label, the narrative, the note, the echo
RenderResult(scr, p, t, pr, lab, df) ==
  scr \o << El("metric", "Probability", <<Pct2(p)>>),
            El("metric", "Threshold", <<Fmt2(t)>>),
            El("metric", "Predicted label", <<pr>>),
            El(IF pr = 1 THEN "error" ELSE "success", lab, <<>>),
            El("markdown", "narrative", risk_narrative(p, t)[2]),
            El("markdown", "note", <<>>),
            El("dataframe", "Input summary", df.rows[1]) >>

Render ==
  /\ pc = "render"
  /\ screenOut' = RenderResult(screenOut, prob[1], thr[1], pred[1], label[1],
                               df_single_orig[1])
  /\ pc' = IF show_shap THEN "shap" ELSE "caption"
  /\ UNCHANGED <<kaVars, envVars, runs, loadVars, widgetVars, resultVars, raised>>

-----------------------------------------------------------------------------
(* Attribution.  An ndarray is [shape, flat]: its shape and its elements in  *)
(* row-major order.                                                          *)

NdArray(shape, flat) == [shape |-> shape, flat |-> flat]

\* per-feature contributions to the positive class, for the scorer above
Contributions(m, X) == [i \in 1..Len(X) |-> m.coef[i] * X[i]]

Negated(v) == [i \in 1..Len(v) |-> 0 - v[i]]

\* the two classes side by side: element i of the row holds (class 0, class 1)
RECURSIVE PerClassPairs(_, _)
PerClassPairs(v, i) ==
  IF i > Len(v) THEN <<>> ELSE <<0 - v[i], v[i]>> \o PerClassPairs(v, i + 1)

\* the shapes explainer.shap_values(X) takes, depending on the library version
\* and the tree model
ShapForms == {"list2", "list1", "struct", "array", "array3"}

ShapValues(form, m, X) ==
  LET pos == Contributions(m, X)
      n == Len(X)
  IN  CASE form = "list2"  -> [kind |-> "list",
                               items |-> <<NdArray(<<1, n>>, Negated(pos)), NdArray(<<1, n>>, pos)>>]
        [] form = "list1"  -> [kind |-> "list", items |-> <<NdArray(<<1, n>>, pos)>>]
        [] form = "struct" -> [kind |-> "struct", items |-> <<NdArray(<<1, n>>, pos)>>]
        [] form = "array"  -> [kind |-> "array", items |-> <<NdArray(<<1, n>>, pos)>>]
        [] form = "array3" -> [kind |-> "array",
                               items |-> <<NdArray(<<1, n, 2>>, PerClassPairs(pos, 1))>>]

\* np.asarray(a).reshape(1, -1)[0]
ReshapeRow(a) == a.flat

\* lines 248-261 and 279: shap_vec[0]
NormalizeShap(sv) ==
  IF sv.kind = "list"
    THEN ReshapeRow(IF Len(sv.items) > 1 THEN sv.items[2] ELSE sv.items[1])
    ELSE ReshapeRow(sv.items[1])

\* lines 241-286, and 288-289 when a step raises
Shap ==
  /\ pc = "shap"
  /\ IF ~model[1].calibrated
       THEN \* model.calibrated_classifiers_: AttributeError
            Caught(<<"AttributeError", "calibrated_classifiers_">>) /\ UNCHANGED shap_vec
       ELSE \/ \* shap.TreeExplainer or explainer.shap_values raises
               Caught(<<"Exception", "TreeExplainer">>) /\ UNCHANGED shap_vec
            \/ \E form \in ShapForms :
                 /\ shap_vec' = Some(NormalizeShap(ShapValues(form, model[1], X_single_model[1])))
                 /\ \/ \* shap.plots.waterfall or st.pyplot raises
                       Caught(<<"Exception", "waterfall">>)
                    \/ /\ screenOut' = Append(screenOut, El("pyplot", "SHAP waterfall", shap_vec'[1]))
                       /\ pc' = "caption"
                       /\ UNCHANGED raised
  /\ UNCHANGED <<kaVars, envVars, runs, loadVars, widgetVars, df_single_orig, X_single_model,
                 prob, pred, label>>

\* line 291
Caption ==
  /\ pc = "caption"
  /\ screenOut' = Append(screenOut, El("caption", "Caregiver ML", <<>>))
  /\ pc' = "done"
  /\ UNCHANGED <<kaVars, envVars, runs, loadVars, widgetVars, resultVars, raised>>

\* a plausible slip: the failure of an earlier submission is kept across runs
Rerun_keeps_error ==
  /\ pc \in {"done", "stopped", "crashed"}
  /\ runs < MaxRuns
  /\ runs' = runs + 1
  /\ pc' = "start"
  /\ preprocessor' = None
  /\ model' = None
  /\ BEST_THRESHOLD' = None
  /\ thr' = None
  /\ show_shap' = FALSE
  /\ user_inputs' = <<>>
  /\ submitted' = FALSE
  /\ df_single_orig' = None
  /\ X_single_model' = None
  /\ prob' = None
  /\ pred' = None
  /\ label' = None
  /\ shap_vec' = None
  /\ screenOut' = <<>>
  /\ UNCHANGED <<envVars, kaVars, raised>>

\* the user touches a widget: the script runs again from the top
Rerun ==
  /\ pc \in {"done", "stopped", "crashed"}
  /\ runs < MaxRuns
  /\ runs' = runs + 1
  /\ pc' = "start"
  /\ preprocessor' = None
  /\ model' = None
  /\ BEST_THRESHOLD' = None
  /\ thr' = None
  /\ show_shap' = FALSE
  /\ user_inputs' = <<>>
  /\ submitted' = FALSE
  /\ df_single_orig' = None
  /\ X_single_model' = None
  /\ prob' = None
  /\ pred' = None
  /\ label' = None
  /\ shap_vec' = None
  /\ raised' = None
  /\ screenOut' = <<>>
  /\ UNCHANGED <<envVars, kaVars>>

Next ==
  \/ LoadPreprocessor
  \/ LoadModel
  \/ LoadThreshold
  \/ Sidebar
  \/ Form
  \/ Score
  \/ Render
  \/ Shap
  \/ Caption
  \/ Rerun

Spec == Init /\ [][Next]_vars

-----------------------------------------------------------------------------
(* Properties of the application script *)

\* the submission was scored: lines 206-212 ran to their end
Scored == prob # None

\* C1: for the probability p and the threshold t of a scored submission, the
\* narrative label is High if and only if p >= t and Low if and only if p < t
\* (p = t is High), and the numeric label is 1 exactly when the label is High.
C1_LabelIffThreshold ==
  Scored =>
     /\ label # None /\ pred # None
     /\ label[1] \in {HIGH, LOW}
     /\ (label[1] = HIGH <=> prob[1] >= thr[1])
     /\ (label[1] = LOW <=> prob[1] < thr[1])
     /\ (pred[1] = 1 <=> label[1] = HIGH)
     /\ pred[1] \in {0, 1}

\* a submission scored exactly at the threshold
C1_Witness ==
  /\ Scored
  /\ prob[1] = thr[1]
  /\ label = Some(HIGH)
  /\ pred = Some(1)

StartupPositions == {"start", "load_model"}

\* C5: with the preprocessor file or the classifier file absent, the form is
\* never shown and nothing is scored, and once the run is past the artifact
\* loading it has stopped with the not-found error of the first absent artifact
\* on screen (unless reading the preprocessor had already ended the run).
C5_HaltsBeforeForm ==
  (preprocessorFile.state = "missing" \/ modelFile.state = "missing") =>
     /\ ~Shows(screenOut, "form", "single_form")
     /\ user_inputs = <<>>
     /\ df_single_orig = None /\ X_single_model = None /\ prob = None
     /\ pc \in StartupPositions \cup {"stopped", "crashed"}
     /\ (pc \notin StartupPositions /\ preprocessorFile.state = "missing") =>
          (pc = "stopped" /\ Shows(screenOut, "error", "Preprocessor not found"))
     /\ (pc \notin StartupPositions /\ preprocessorFile.state = "ok") =>
          (pc = "stopped" /\ Shows(screenOut, "error", "Model not found")
             /\ preprocessor # None /\ model = None)

\* the classifier file is absent, the preprocessor was loaded, the run has stopped
C5_Witness ==
  /\ modelFile.state = "missing"
  /\ preprocessor # None
  /\ pc = "stopped"
  /\ Shows(screenOut, "error", "Model not found")

\* predict_proba was called: the record was built and preprocessed
ProbaCalled == X_single_model # None

\* C6: predict_proba takes the positive-class column of the direct probability
\* output whenever the model exposes one, also when a decision function is
\* present; otherwise the logistic map of the decision function's score when the
\* model exposes that; otherwise it raises the unsupported-model error and no
\* probability results.
C6_ProbabilityPriority ==
  ProbaCalled =>
     LET m == model[1]
         X == X_single_model[1]
     IN  /\ m.hasPP => prob = Some(ModelPredictProba(m, X)[1][2])
         /\ (~m.hasPP /\ m.hasDF) =>
              prob = Some((Unit * Unit) \div (Unit + Exp(0 - ModelDecisionFunction(m, X))))
         /\ (~m.hasPP /\ ~m.hasDF) =>
              /\ prob = None
              /\ raised = Some(<<"RuntimeError", "Model does not support probability outputs">>)

\* a model exposing both outputs, whose two outputs differ, scored by the first
C6_Witness ==
  /\ ProbaCalled
  /\ model[1].hasPP /\ model[1].hasDF
  /\ prob # None
  /\ prob[1] # Logistic(ModelDecisionFunction(model[1], X_single_model[1]))

\* the result of a scored submission is on screen
ResultShown ==
  /\ ShowsData(screenOut, "metric", "Probability", <<Pct2(prob[1])>>)
  /\ ShowsData(screenOut, "metric", "Threshold", <<Fmt2(thr[1])>>)
  /\ ShowsData(screenOut, "metric", "Predicted label", <<pred[1]>>)
  /\ (Shows(screenOut, "error", label[1]) \/ Shows(screenOut, "success", label[1]))
  /\ Shows(screenOut, "markdown", "narrative")

\* C7: once a submission is scored and rendered, its probability, threshold,
\* predicted label and narrative are on screen and stay there to the end of the
\* run, also when the attribution step raises.
C7_ResultShownDespiteShap ==
  (Scored /\ pc \in {"shap", "caption", "done"}) => ResultShown

\* the attribution step raised and the run ended with the result on screen
C7_Witness ==
  /\ Scored
  /\ pc = "done"
  /\ raised # None
  /\ ResultShown

\* C8: a submission that was scored and whose attribution step raised does not
\* end with a prediction-failed error on screen.
C8_ShapFailureSwallowed ==
  (Scored /\ raised # None /\ pc = "done") =>
     ~Shows(screenOut, "error", "Prediction failed")

-----------------------------------------------------------------------------
(* The keep-alive scripts.  script = "scripts" is the health-check script    *)
(* (src/.github/scripts/wake_up_app.py), script = "workflows" the            *)
(* resume-prompt script (src/.github/workflows/wake_up_app.py).  Every call  *)
(* into the network, the browser driver or the file system ends in one of    *)
(* the ways the library allows, chosen by the environment.                   *)

\* max_retries=3, the default of both scripts
max_retries == 3

InitKeepAlive ==
  /\ AppIdle
  /\ script \in {"scripts", "workflows"}
  /\ STREAMLIT_URL \in {"", "https://caregiver.example.app"}
  /\ kpc = "main"
  /\ attempt = 0
  /\ driver = None
  /\ sessions = {}
  /\ launched = 0
  /\ ret = None
  /\ success = FALSE
  /\ exit_code = None
  /\ attemptLog = <<>>
  /\ outcomes = NoOutcomes
  /\ sleeps = <<>>
  /\ clicks = <<>>

Outcome(step, o) == outcomes' = [outcomes EXCEPT ![step] = o]

\* an exception reaches the attempt's handler: wake_up_app returns False
\* (scripts, lines 180-182); the resume-prompt script logs it and falls through
\* to its finally clause (workflows, lines 114-117)
AttemptFails ==
  /\ ret' = IF script = "scripts" THEN Some(FALSE) ELSE None
  /\ kpc' = "finally"

\* a plausible slip: the retry loop is entered whatever STREAMLIT_URL holds
KMain_no_url_check ==
  /\ kpc = "main"
  /\ \E logging_ok \in BOOLEAN :
       IF ~logging_ok
         THEN /\ exit_code' = Some(1)
              /\ kpc' = "exited"
         ELSE /\ kpc' = "loop"
              /\ UNCHANGED exit_code
  /\ UNCHANGED <<appVars, script, STREAMLIT_URL, attempt, driver, sessions, launched,
                 ret, success, attemptLog, outcomes, sleeps, clicks>>

\* scripts lines 223-234 (the URL check, then the constructor's setup_logging);
\* workflows lines 23-34 and 133-147 (the log directory at import, then the URL
\* check).  An uncaught exception ends the process with exit code 1.
KMain ==
  /\ kpc = "main"
  /\ \E logging_ok \in BOOLEAN :
       IF STREAMLIT_URL = "" \/ ~logging_ok
         THEN /\ exit_code' = Some(1)
              /\ kpc' = "exited"
         ELSE /\ kpc' = "loop"
              /\ UNCHANGED exit_code
  /\ UNCHANGED <<appVars, script, STREAMLIT_URL, attempt, driver, sessions, launched,
                 ret, success, attemptLog, outcomes, sleeps, clicks>>

\* a plausible slip: the loop has no upper bound and spins once the attempts
\* are used up
KLoop_never_gives_up ==
  /\ kpc = "loop"
  /\ IF attempt < max_retries
       THEN /\ attempt' = attempt + 1
            /\ driver' = None
            /\ ret' = None
            /\ outcomes' = NoOutcomes
            /\ kpc' = IF script = "scripts" THEN "health" ELSE "create"
       ELSE UNCHANGED <<attempt, driver, ret, outcomes, kpc>>
  /\ UNCHANGED <<appVars, script, STREAMLIT_URL, sessions, launched, success,
                 exit_code, attemptLog, sleeps, clicks>>

\* for attempt in range(1, max_retries + 1): scripts line 196, workflows lines 70-71
KLoop ==
  /\ kpc = "loop"
  /\ IF attempt < max_retries
       THEN /\ attempt' = attempt + 1
            /\ driver' = None
            /\ ret' = None
            /\ outcomes' = NoOutcomes
            /\ kpc' = IF script = "scripts" THEN "health" ELSE "create"
       ELSE /\ kpc' = "end"
            /\ UNCHANGED <<attempt, driver, ret, outcomes>>
  /\ UNCHANGED <<appVars, script, STREAMLIT_URL, sessions, launched, success,
                 exit_code, attemptLog, sleeps, clicks>>

\* a plausible slip: a failed health check gives the attempt up
KHealth_aborts ==
  /\ kpc = "health"
  /\ \/ /\ Outcome("health", "200")
        /\ kpc' = "create"
        /\ UNCHANGED ret
     \/ /\ \E o \in {"non200", "error"} : Outcome("health", o)
        /\ AttemptFails
  /\ UNCHANGED <<appVars, script, STREAMLIT_URL, attempt, driver, sessions, launched,
                 success, exit_code, attemptLog, sleeps, clicks>>

\* scripts lines 136-148 and 155-157: check_app_health, whose result is only logged
KHealth ==
  /\ kpc = "health"
  /\ \E o \in {"200", "non200", "error"} : Outcome("health", o)
  /\ kpc' = "create"
  /\ UNCHANGED <<appVars, script, STREAMLIT_URL, attempt, driver, sessions, launched,
                 ret, success, exit_code, attemptLog, sleeps, clicks>>

\* the session webdriver.Chrome(...) starts
Launch ==
  /\ launched' = launched + 1
  /\ sessions' = sessions \cup {launched + 1}

\* scripts lines 46-70 and 159-161: webdriver.Chrome raises, or the session is
\* returned and bound to driver
CreateDriverScripts ==
  /\ script = "scripts"
  /\ \/ /\ Outcome("create", "raise")
        /\ AttemptFails
        /\ UNCHANGED <<driver, sessions, launched>>
     \/ /\ Outcome("create", "ok")
        /\ Launch
        /\ driver' = Some(launched + 1)
        /\ kpc' = "get"
        /\ UNCHANGED ret

\* workflows lines 37-56 and 74: webdriver.Chrome raises; or the session starts
\* and driver.set_page_load_timeout(60) raises inside create_driver, which
\* returns nothing, so driver stays None; or the session is returned and bound
CreateDriverWorkflows ==
  /\ script = "workflows"
  /\ \/ /\ Outcome("create", "raise")
        /\ AttemptFails
        /\ UNCHANGED <<driver, sessions, launched>>
     \/ /\ Outcome("create", "raise_after_launch")
        /\ Launch
        /\ AttemptFails
        /\ UNCHANGED driver
     \/ /\ Outcome("create", "ok")
        /\ Launch
        /\ driver' = Some(launched + 1)
        /\ kpc' = "get"
        /\ UNCHANGED ret

KCreate ==
  /\ kpc = "create"
  /\ (CreateDriverScripts \/ CreateDriverWorkflows)
  /\ UNCHANGED <<appVars, script, STREAMLIT_URL, attempt, success, exit_code,
                 attemptLog, sleeps, clicks>>

\* driver.get(url): scripts line 164, workflows lines 77-80
KGet ==
  /\ kpc = "get"
  /\ \/ Outcome("get", "raise") /\ AttemptFails
     \/ /\ Outcome("get", "ok")
        /\ kpc' = IF script = "scripts" THEN "ready" ELSE "find"
        /\ UNCHANGED ret
  /\ UNCHANGED <<appVars, script, STREAMLIT_URL, attempt, driver, sessions, launched,
                 success, exit_code, attemptLog, sleeps, clicks>>

\* scripts lines 74-78 and 100-102: the wait for document.readyState
KReady ==
  /\ kpc = "ready"
  /\ \/ \E o \in {"timeout", "raise"} : Outcome("ready", o) /\ AttemptFails
     \/ /\ Outcome("ready", "complete")
        /\ kpc' = "selectors"
        /\ UNCHANGED ret
  /\ UNCHANGED <<appVars, script, STREAMLIT_URL, attempt, driver, sessions, launched,
                 success, exit_code, attemptLog, sleeps, clicks>>

\* scripts lines 81-98: the first selector present ends the probing; none
\* present is a warning; an error other than a timeout leaves the function
KSelectors ==
  /\ kpc = "selectors"
  /\ \/ Outcome("selectors", "raise") /\ AttemptFails
     \/ /\ \E o \in {"stApp", "main", "body", "stSidebar", "none"} : Outcome("selectors", o)
        /\ kpc' = "interact"
        /\ UNCHANGED ret
  /\ UNCHANGED <<appVars, script, STREAMLIT_URL, attempt, driver, sessions, launched,
                 success, exit_code, attemptLog, sleeps, clicks>>

\* a plausible slip: the first clickable element found is clicked, as the
\* comment at line 120 announces
KInteract_clicks_first ==
  /\ kpc = "interact"
  /\ \/ /\ Outcome("interact", "ok")
        /\ clicks' = Append(clicks, "first_element")
     \/ /\ \E o \in {"listing_raised", "scroll_raised"} : Outcome("interact", o)
        /\ UNCHANGED clicks
  /\ kpc' = "title"
  /\ UNCHANGED <<appVars, script, STREAMLIT_URL, attempt, driver, sessions, launched,
                 ret, success, exit_code, attemptLog, sleeps>>

\* a plausible slip: an exception of the interaction step leaves wake_up_app
KInteract_escalates ==
  /\ kpc = "interact"
  /\ \/ /\ Outcome("interact", "ok")
        /\ kpc' = "title"
        /\ UNCHANGED ret
     \/ /\ \E o \in {"listing_raised", "scroll_raised"} : Outcome("interact", o)
        /\ AttemptFails
  /\ UNCHANGED <<appVars, script, STREAMLIT_URL, attempt, driver, sessions, launched,
                 success, exit_code, attemptLog, sleeps, clicks>>

\* scripts lines 104-134: two scrolls, then the clickable elements are listed
\* and the first is logged, not clicked; every exception is caught inside
KInteract ==
  /\ kpc = "interact"
  /\ \E o \in {"ok", "listing_raised", "scroll_raised"} : Outcome("interact", o)
  /\ kpc' = "title"
  /\ UNCHANGED <<appVars, script, STREAMLIT_URL, attempt, driver, sessions, launched,
                 ret, success, exit_code, attemptLog, sleeps, clicks>>

\* scripts lines 168-178: driver.title and driver.page_source; with or without
\* a Streamlit marker the attempt returns True
KTitle ==
  /\ kpc = "title"
  /\ \/ Outcome("title", "raise") /\ AttemptFails
     \/ /\ \E o \in {"marker_in_title", "marker_in_source", "no_marker"} : Outcome("title", o)
        /\ ret' = Some(TRUE)
        /\ kpc' = "finally"
  /\ UNCHANGED <<appVars, script, STREAMLIT_URL, attempt, driver, sessions, launched,
                 success, exit_code, attemptLog, sleeps, clicks>>

\* workflows lines 83-89 and 109-112: the wait for the resume button; a timeout
\* means the app is awake and the attempt returns True
KFind ==
  /\ kpc = "find"
  /\ \/ Outcome("find", "raise") /\ AttemptFails
     \/ /\ Outcome("find", "timeout")
        /\ ret' = Some(TRUE)
        /\ kpc' = "finally"
     \/ /\ Outcome("find", "found")
        /\ kpc' = "click"
        /\ UNCHANGED ret
  /\ UNCHANGED <<appVars, script, STREAMLIT_URL, attempt, driver, sessions, launched,
                 success, exit_code, attemptLog, sleeps, clicks>>

\* workflows lines 84-91: the only element a script calls click() on
ResumeButton == "Yes, get this app back up"

\* workflows lines 90-94 and 109-112: wake_button.click(); a TimeoutException
\* it raises is caught by the handler of the button wait
KClick ==
  /\ kpc = "click"
  /\ clicks' = Append(clicks, ResumeButton)
  /\ \/ Outcome("click", "raise") /\ AttemptFails
     \/ /\ Outcome("click", "timeout")
        /\ ret' = Some(TRUE)
        /\ kpc' = "finally"
     \/ /\ Outcome("click", "ok")
        /\ kpc' = "gone"
        /\ UNCHANGED ret
  /\ UNCHANGED <<appVars, script, STREAMLIT_URL, attempt, driver, sessions, launched,
                 success, exit_code, attemptLog, sleeps>>

\* a plausible slip: a button that is still there after the wait counts as woken
KGone_timeout_succeeds ==
  /\ kpc = "gone"
  /\ \/ Outcome("gone", "raise") /\ AttemptFails
     \/ /\ \E o \in {"timeout", "gone"} : Outcome("gone", o)
        /\ ret' = Some(TRUE)
        /\ kpc' = "finally"
  /\ UNCHANGED <<appVars, script, STREAMLIT_URL, attempt, driver, sessions, launched,
                 success, exit_code, attemptLog, sleeps, clicks>>

\* workflows lines 96-107: the wait for the button to disappear; a timeout is
\* logged and the attempt goes on to its finally clause without returning
KGone ==
  /\ kpc = "gone"
  /\ \/ Outcome("gone", "raise") /\ AttemptFails
     \/ /\ Outcome("gone", "timeout")
        /\ kpc' = "finally"
        /\ UNCHANGED ret
     \/ /\ Outcome("gone", "gone")
        /\ ret' = Some(TRUE)
        /\ kpc' = "finally"
  /\ UNCHANGED <<appVars, script, STREAMLIT_URL, attempt, driver, sessions, launched,
                 success, exit_code, attemptLog, sleeps, clicks>>

\* finally: if driver: driver.quit(), an exception of which is caught
\* (scripts lines 184-190, workflows lines 118-123); the attempt then reports
KFinally ==
  /\ kpc = "finally"
  /\ IF driver # None
       THEN /\ \E o \in {"ok", "raise"} : Outcome("quit", o)
            /\ sessions' = sessions \ {driver[1]}
       ELSE UNCHANGED <<outcomes, sessions>>
  /\ attemptLog' = Append(attemptLog, ret = Some(TRUE))
  /\ kpc' = "after"
  /\ UNCHANGED <<appVars, script, STREAMLIT_URL, attempt, driver, launched, ret,
                 success, exit_code, sleeps, clicks>>

\* a plausible slip: the health-check script waits the fixed 10 s too
Backoff_fixed(s, n) == 10

\* wait_time = 30 * attempt (scripts line 211); time.sleep(10) (workflows line 127)
Backoff(s, n) == IF s = "scripts" THEN 30 * n ELSE 10

\* a plausible slip: the loop is not left after a successful attempt
KAfter_no_break ==
  /\ kpc = "after"
  /\ success' = (success \/ ret = Some(TRUE))
  /\ sleeps' = IF ret # Some(TRUE) /\ attempt < max_retries
                 THEN Append(sleeps, Backoff(script, attempt))
                 ELSE sleeps
  /\ kpc' = "loop"
  /\ UNCHANGED <<appVars, script, STREAMLIT_URL, attempt, driver, sessions, launched,
                 ret, exit_code, attemptLog, outcomes, clicks>>

\* scripts lines 200-213: success = True and break, or the backoff sleep;
\* workflows: return True, or lines 125-127
KAfter ==
  /\ kpc = "after"
  /\ IF ret = Some(TRUE)
       THEN /\ success' = TRUE
            /\ kpc' = "end"
            /\ UNCHANGED sleeps
       ELSE /\ sleeps' = IF attempt < max_retries
                           THEN Append(sleeps, Backoff(script, attempt))
                           ELSE sleeps
            /\ kpc' = "loop"
            /\ UNCHANGED success
  /\ UNCHANGED <<appVars, script, STREAMLIT_URL, attempt, driver, sessions, launched,
                 ret, exit_code, attemptLog, outcomes, clicks>>

\* a plausible slip: the failure branch returns 0 too
ExitCodeOf_always_zero(ok) == 0

\* scripts lines 215-220 and 235-237; workflows lines 129-130 and 150-157
ExitCodeOf(ok) == IF ok THEN 0 ELSE 1

KEnd ==
  /\ kpc = "end"
  /\ exit_code' = Some(ExitCodeOf(success))
  /\ kpc' = "exited"
  /\ UNCHANGED <<appVars, script, STREAMLIT_URL, attempt, driver, sessions, launched,
                 ret, success, attemptLog, outcomes, sleeps, clicks>>

NextKeepAlive ==
  \/ KMain
  \/ KLoop
  \/ KHealth
  \/ KCreate
  \/ KGet
  \/ KReady
  \/ KSelectors
  \/ KInteract
  \/ KTitle
  \/ KFind
  \/ KClick
  \/ KGone
  \/ KFinally
  \/ KAfter
  \/ KEnd

SpecKeepAlive == InitKeepAlive /\ [][NextKeepAlive]_vars

-----------------------------------------------------------------------------
(* Properties of the keep-alive scripts *)

SomeAttemptSucceeded == \E i \in 1..Len(attemptLog) : attemptLog[i]

\* C9: in both scripts the exit code is 0 if and only if some attempt reported
\* success, and it is 1 when every attempt failed or STREAMLIT_URL is absent or
\* empty.
C9_ExitCode ==
  exit_code # None =>
     /\ exit_code[1] \in {0, 1}
     /\ (exit_code[1] = 0 <=> SomeAttemptSucceeded)
     /\ (STREAMLIT_URL = "" => exit_code[1] = 1 /\ attemptLog = <<>>)
     /\ ((Len(attemptLog) = max_retries /\ ~SomeAttemptSucceeded) => exit_code[1] = 1)

\* two failed attempts, then a successful one, and exit code 0
C9_Witness ==
  /\ exit_code = Some(0)
  /\ attemptLog = <<FALSE, FALSE, TRUE>>

\* C10: every browser session launched in an attempt is quit by the end of that
\* attempt: at most one session is open at any time, and none is open when an
\* attempt starts or when the process has exited.
C10_SessionsQuit ==
  /\ Cardinality(sessions) <= 1
  /\ kpc \in {"loop", "health", "after", "end", "exited"} => sessions = {}

\* what the attempt that has just run its finally clause reports
Reported == attemptLog[Len(attemptLog)]

\* C11: in the resume-prompt script an attempt reports success when the resume
\* button is not found within its wait, and when it is found, clicked and gone
\* within its wait; when it is found and clicked but still there after the wait
\* the attempt reports failure, and the retry policy follows: the 10 s backoff
\* and the next attempt if one remains, the end of the loop otherwise.
C11_ResumePrompt ==
  [][ script = "workflows" =>
        /\ (kpc = "finally" /\ kpc' = "after") =>
              /\ outcomes.find = "timeout" => Reported'
              /\ (outcomes.find = "found" /\ outcomes.click = "ok"
                    /\ outcomes.gone = "gone") => Reported'
              /\ (outcomes.find = "found" /\ outcomes.click = "ok"
                    /\ outcomes.gone = "timeout") => ~Reported'
        /\ (kpc = "after" /\ outcomes.gone = "timeout") =>
              /\ kpc' = "loop"
              /\ ~success'
              /\ sleeps' = IF attempt < max_retries THEN Append(sleeps, 10) ELSE sleeps
        /\ (kpc = "loop" /\ outcomes.gone = "timeout") =>
              IF attempt < max_retries
                THEN attempt' = attempt + 1 /\ kpc' = "create"
                ELSE attempt' = attempt /\ kpc' = "end" ]_vars

\* the button was clicked and stayed: the first attempt reported failure, the
\* script slept 10 s and the second attempt is starting
C11_Witness ==
  /\ script = "workflows"
  /\ kpc = "loop"
  /\ outcomes.find = "found"
  /\ outcomes.click = "ok"
  /\ outcomes.gone = "timeout"
  /\ attemptLog = <<FALSE>>
  /\ sleeps = <<10>>


\* scripts lines 159-182: what wake_up_app returns, from what each step of the
\* attempt did; the title and page-source test returns True on both branches
WakeUpResult(o) ==
  /\ o.create = "ok"
  /\ o.get = "ok"
  /\ o.ready = "complete"
  /\ o.selectors \in {"stApp", "main", "body", "stSidebar", "none"}
  /\ o.title \in {"marker_in_title", "marker_in_source", "no_marker"}

\* C12: in the health-check script the HTTP health check is advisory only:
\* whether it returns 200, another status or raises, the attempt goes on to the
\* driver launch with nothing decided, the page load follows a launched
\* driver, and the attempt reports what it would report had the check passed.
C12_HealthAdvisory ==
  [][ script = "scripts" =>
        /\ kpc = "health" =>
              /\ kpc' = "create"
              /\ ret' = None
              /\ driver' = None
        /\ (kpc = "create" /\ outcomes'.create = "ok") => kpc' = "get"
        /\ (kpc = "finally" /\ kpc' = "after") =>
              Reported' = WakeUpResult([outcomes EXCEPT !["health"] = "200"]) ]_vars

\* the health check raised (connection refused), the page loaded and the
\* attempt reported success
C12_Witness ==
  /\ script = "scripts"
  /\ kpc = "after"
  /\ outcomes.health = "error"
  /\ outcomes.get = "ok"
  /\ ret = Some(TRUE)
  /\ attemptLog = <<TRUE>>


\* C13: in both scripts a run of the retry loop (run, wake_up_streamlit_app)
\* performs at least one and at most max_retries attempts; attempts are
\* strictly sequential, each starting only after the previous one has reported;
\* and no attempt starts after an attempt has reported success.
C13_Attempts ==
  [][ /\ attempt' # attempt =>
            /\ attempt' = attempt + 1
            /\ attempt' <= max_retries
            /\ Len(attemptLog) = attempt
            /\ kpc = "loop"
            /\ ~SomeAttemptSucceeded
      /\ attemptLog' # attemptLog =>
            /\ Len(attemptLog') = attempt
            /\ Len(attemptLog) = attempt - 1
      /\ kpc' = "end" =>
            /\ Len(attemptLog') >= 1
            /\ Len(attemptLog') <= max_retries ]_vars

\* the second attempt succeeded and the run ended without a third
C13_Witness ==
  /\ kpc = "exited"
  /\ attempt = 2
  /\ attemptLog = <<FALSE, TRUE>>
  /\ attempt < max_retries


\* create_driver raised in the current attempt
LaunchFailed(o) == o.create \in {"raise", "raise_after_launch"}

\* C14: a failure to launch the browser driver fails only the current attempt,
\* not the process: the attempt reports failure with no session left open and
\* no exit code set, the backoff follows when attempts remain, and the loop
\* then starts the next attempt.
C14_LaunchFailure ==
  [][ /\ (kpc = "create" /\ LaunchFailed(outcomes')) =>
            /\ kpc' = "finally"
            /\ ret' # Some(TRUE)
            /\ exit_code' = None
            /\ sessions' = {}
      /\ (kpc = "after" /\ LaunchFailed(outcomes)) =>
            /\ kpc' = "loop"
            /\ exit_code' = None
            /\ sleeps' = IF attempt < max_retries
                            THEN Append(sleeps, Backoff(script, attempt))
                            ELSE sleeps
      /\ (kpc = "loop" /\ LaunchFailed(outcomes) /\ attempt < max_retries) =>
            /\ attempt' = attempt + 1
            /\ kpc' \in {"health", "create"} ]_vars

\* scripts lines 161-165: create_driver, driver.get and the document-ready
\* wait of wait_for_page_load all went through
PageLoaded(o) ==
  /\ o.create = "ok"
  /\ o.get = "ok"
  /\ o.ready = "complete"

\* C15 as stated: in the health-check script an attempt reports success exactly
\* when driver launch, navigation and the document-ready wait succeeded;
\* nothing after the document-ready wait can make it fail.
C15_AsClaimed ==
  [][ (script = "scripts" /\ kpc = "finally" /\ kpc' = "after") =>
        (Reported' <=> PageLoaded(outcomes)) ]_vars

\* C15: in the health-check script an attempt in which driver launch,
\* navigation and the document-ready wait succeed reports success whichever
\* selector appears or none, whichever Streamlit marker is found or none, and
\* whether or not the interaction step raises, unless a driver error other
\* than a timeout leaves the selector probing or the title and page-source
\* read raises; an attempt fails only on one of those two errors, on a failed
\* document-ready wait, or on a launch or navigation error.
C15_PageLoadedSucceeds ==
  [][ (script = "scripts" /\ kpc = "finally" /\ kpc' = "after") =>
        /\ (PageLoaded(outcomes) /\ outcomes.selectors # "raise"
              /\ outcomes.title # "raise") => Reported'
        /\ ~Reported' =>
              \/ outcomes.create = "raise"
              \/ outcomes.get = "raise"
              \/ outcomes.ready \in {"timeout", "raise"}
              \/ outcomes.selectors = "raise"
              \/ outcomes.title = "raise" ]_vars

\* no selector appeared, the scrolling raised, no marker was found, and the
\* attempt reported success
C15_Witness ==
  /\ script = "scripts"
  /\ kpc = "after"
  /\ PageLoaded(outcomes)
  /\ outcomes.selectors = "none"
  /\ outcomes.interact = "scroll_raised"
  /\ outcomes.title = "no_marker"
  /\ Reported


-----------------------------------------------------------------------------
(* Properties of the application, continued *)

\* C17: whichever shape the explainer returns (list of per-class arrays,
\* structured object, bare array), the attribution step hands the plot one
\* contribution vector of length ten, one value per schema feature, and it is
\* the positive-class slice when the output is multi-class.
C17_ShapNormalized ==
  shap_vec # None =>
     /\ Len(shap_vec[1]) = Len(FINAL_FEATURES)
     /\ shap_vec[1] = Contributions(model[1], X_single_model[1])


\* lines 206-212 as a function of what they read: the record, the threshold
\* and the two artifacts; the value is (probability, numeric label, label)
ScoreSubmission(pre, m, t, inputs) ==
  LET r1 == ensure_feature_dataframe(inputs, FINAL_FEATURES)
      r2 == Transform(pre, r1.value)
      r3 == predict_proba(m, r2.value)
  IN  IF r1.raised THEN r1
      ELSE IF r2.raised THEN r2
      ELSE IF r3.raised THEN r3
      ELSE Ok(<<r3.value, PredictedLabel(r3.value, t), risk_narrative(r3.value, t)[1]>>)

\* C18: an error raised while scoring a record fails that submission only.
\* In every submission, the first or a later one, the preprocessor, the
\* classifier and the threshold in use are the ones the files hold, and the
\* outcome is what the current record, threshold and artifacts alone give: the
\* prediction-failed error naming the exception and no result when the scoring
\* raises, and otherwise the result, with no error left from an earlier
\* submission.
C18_PerRecordErrorLocal ==
  (submitted /\ pc \in {"render", "shap", "caption", "done"}) =>
     /\ preprocessor = Some(preprocessorFile.object[1])
     /\ model = Some(modelFile.object[1])
     /\ BEST_THRESHOLD =
          Some(load_threshold(thresholdFile, THRESHOLD_KEY, DEFAULT_THRESHOLD).value)
     /\ LET r == ScoreSubmission(preprocessorFile.object[1], modelFile.object[1],
                                 thr[1], user_inputs)
        IN  IF r.raised
              THEN /\ prob = None /\ pred = None /\ label = None
                   /\ raised = Some(r.exc)
                   /\ ShowsData(screenOut, "error", "Prediction failed", r.exc)
                   /\ pc \in {"caption", "done"}
              ELSE /\ prob = Some(r.value[1])
                   /\ pred = Some(r.value[2])
                   /\ label = Some(r.value[3])
                   /\ pc = "render" =>
                        /\ raised = None
                        /\ ~Shows(screenOut, "error", "Prediction failed")

\* a second submission whose model gives no probability output: the error is
\* on screen, nothing was scored, the artifacts are loaded and the run is over
C18_Witness ==
  /\ runs = 2
  /\ submitted
  /\ pc = "done"
  /\ raised = Some(<<"RuntimeError", "Model does not support probability outputs">>)
  /\ prob = None
  /\ model = Some(modelFile.object[1])
  /\ preprocessor = Some(preprocessorFile.object[1])
  /\ Shows(screenOut, "error", "Prediction failed")


-----------------------------------------------------------------------------
(* Properties of the keep-alive scripts, continued *)

\* C19: in both scripts a backoff wait happens after an attempt exactly when
\* the attempt failed and its number is below max_retries, of 30 s times the
\* attempt number in the health-check script and of 10 s in the resume-prompt
\* script; none happens after a successful or after the last attempt; and
\* every attempt but the first starts right after the backoff of the one
\* before it.
C19_Backoff ==
  [][ /\ sleeps' # sleeps =>
            /\ kpc = "after"
            /\ ~Reported
            /\ attempt < max_retries
            /\ sleeps' = Append(sleeps, IF script = "scripts" THEN 30 * attempt ELSE 10)
      /\ (kpc = "after" /\ ~Reported /\ attempt < max_retries) =>
            Len(sleeps') = Len(sleeps) + 1
      /\ (kpc = "after" /\ (Reported \/ attempt = max_retries)) => sleeps' = sleeps
      /\ attempt' # attempt => Len(sleeps) = attempt ]_vars

\* three failed attempts of the health-check script: waits of 30 s and 60 s,
\* and none after the last
C19_Witness ==
  /\ script = "scripts"
  /\ kpc = "exited"
  /\ attemptLog = <<FALSE, FALSE, FALSE>>
  /\ sleeps = <<30, 60>>


\* C20: with STREAMLIT_URL absent or empty (os.getenv gives None or "", both
\* of which `not app_url` accepts; "" stands for the two here) both scripts
\* exit with code 1 from main in one step: no health check is issued, no
\* browser session is launched, no attempt is started, nothing is retried.
C20_NoUrlHalts ==
  STREAMLIT_URL = "" =>
     /\ kpc \in {"main", "exited"}
     /\ (kpc = "main" => exit_code = None)
     /\ (kpc = "exited" => exit_code = Some(1))
     /\ attempt = 0
     /\ attemptLog = <<>>
     /\ outcomes = NoOutcomes
     /\ launched = 0
     /\ sessions = {}
     /\ driver = None
     /\ sleeps = <<>>
     /\ clicks = <<>>
     /\ ~success

\* the resume-prompt script, started without the URL, has exited with code 1
C20_Witness ==
  /\ script = "workflows"
  /\ STREAMLIT_URL = ""
  /\ kpc = "exited"
  /\ exit_code = Some(1)
  /\ launched = 0
  /\ outcomes.health = ""


\* The scripts are single-threaded: one step is enabled at a time.  Every
\* wait is bounded (WebDriverWait timeouts of 10 s and 30 s, requests timeout
\* of 10 s, page-load timeout, time.sleep) and every driver call returns or
\* raises, so the step that is enabled is eventually taken.
SpecKeepAliveFair == SpecKeepAlive /\ WF_vars(NextKeepAlive)

\* C21: provided every bounded wait and driver call returns, every run of
\* either script eventually terminates with exit code 0 or 1, whatever the
\* outcomes of the steps of its attempts.
C21_Terminates == <>(kpc = "exited" /\ exit_code \in {Some(0), Some(1)})

\* the resume-prompt script used up its three attempts, the last of which found
\* the button still there, and exited with code 1
C21_Witness ==
  /\ script = "workflows"
  /\ kpc = "exited"
  /\ exit_code = Some(1)
  /\ attempt = max_retries
  /\ attemptLog = <<FALSE, FALSE, FALSE>>
  /\ outcomes.gone = "timeout"


-----------------------------------------------------------------------------
(* Properties of the application: the form and the schema *)

\* the keys the form has a field for, by the kind of the field
FormFields(type) ==
  {feature_ranges[i].key : i \in {j \in 1..Len(feature_ranges) : feature_ranges[j].type = type}}

\* C22: every name of FINAL_FEATURES has a field in the form built from
\* feature_ranges, a numerical or a categorical one, so the record of any form
\* submission holds all ten required keys, the frame is built from it, and the
\* missing-features error never results from a form submission.
C22_FormCoversSchema ==
  /\ Range(FINAL_FEATURES) \subseteq FormFields("numerical") \cup FormFields("categorical")
  /\ user_inputs # <<>> =>
       /\ AbsentFeatures = {}
       /\ Range(Keys(user_inputs)) = Range(FINAL_FEATURES)
       /\ Len(user_inputs) = Len(FINAL_FEATURES)
  /\ (submitted /\ pc \in {"render", "shap", "caption", "done"}) =>
       /\ df_single_orig # None
       /\ df_single_orig[1].columns = FINAL_FEATURES
  /\ raised # None => raised[1][2] # "Missing required features"

\* a submitted form whose record, in the form's order and not the schema's,
\* was turned into the ten-column frame and scored
C22_Witness ==
  /\ submitted
  /\ pc = "render"
  /\ Keys(user_inputs) # FINAL_FEATURES
  /\ AbsentFeatures = {}
  /\ df_single_orig # None
  /\ df_single_orig[1].columns = FINAL_FEATURES
  /\ raised = None


=============================================================================
